---- MODULE Spec2Model ----
(***************************************************************************)
(* Model of ParallelBatchRenderer (Source/Rendering): the per-row          *)
(* sequential / cross-row parallel job scheduler, the progress poll and    *)
(* the control flow of renderSingleJob as run by the worker pool.          *)
(*                                                                         *)
(* The message thread runs addJob, startRendering, cancelRendering and     *)
(* timerCallback; pool workers run the submitted lambda (renderSingleJob   *)
(* followed by onJobCompleted).  A worker step is one access to shared     *)
(* state: an atomic load/store, a plain read/write of lastError, or one    *)
(* whole queueLock critical section.                                       *)
(***************************************************************************)
EXTENDS Integers, Sequences, FiniteSets, TLC

\* ---- bounds of the model ------------------------------------------------
NumRows    == 2     \* row indices passed to addJob
MaxJobs    == 2     \* number of addJob calls
NumWorkers == 2     \* threads of the worker pool
FewWorkers == 1     \* threads of the worker pool when calls of cancelRendering
                    \* and restarts are explored as well
NumBlocks  == 2     \* blocks of the render loop (totalSamples / blockSize)
MaxEvents  == 2     \* events of a MIDI file

\* ---- constants of the program ----------------------------------------------
BlockSize     == 2048   \* const int blockSize
MinFileBytes  == 1024   \* "if (fileSize < 1024)"
CheckSamples  == 44100  \* "jmin((int)reader->lengthInSamples, 44100)"

Rows    == 1..NumRows
Jobs    == 1..MaxJobs

\* the callbacks an owner installs: all three (as MainComponent does), no
\* error handler, or none at all (the members as constructed)
NoCallbacks  == [onComplete |-> FALSE, onError |-> FALSE, onProgress |-> FALSE]
AppCallbacks == [onComplete |-> TRUE, onError |-> TRUE, onProgress |-> TRUE]
CallbackConfigs ==
  { AppCallbacks,
    [onComplete |-> TRUE, onError |-> FALSE, onProgress |-> TRUE],
    NoCallbacks }

\* ---- messages stored in lastError ---------------------------------------
NoError     == ""
LoadError   == "Failed to load plugin: "
StreamError == "Failed to create output file"
WriterError == "Failed to create WAV writer"
ExceptionError == "Exception: "

VARIABLES
  rowQueues,       \* OwnedArray<RowQueue>: [rowIndex, jobs, isProcessing]
  totalJobs,       \* int totalJobs
  completedCount,  \* atomic<int>
  failedCount,     \* atomic<int>
  rendering,       \* atomic<bool>
  cancelled,       \* atomic<bool>
  lastError,       \* String lastError
  timerRunning,    \* juce::Timer base: started by startTimerHz, stopped by stopTimer
  callbacks,       \* which of onComplete / onError / onProgress are set
  pool,            \* tasks handed to threadPool.addJob and not yet picked up
  running,         \* lambdas being executed by pool threads, with their position
  mainPc,          \* message thread: "idle", or inside cancelRendering before the lock
  jobRow,          \* RenderJob::rowIndex of every job passed to addJob, in call order
  renders,         \* history: per job, number of renderSingleJob calls
  reports,         \* history: per job, number of onJobCompleted calls
  atCancel,        \* history: the unfinished jobs that at the last call of
                   \* cancelRendering were in the pool or running with a
                   \* cancelled test still ahead (forgotten at the next
                   \* startRendering)
  calls,           \* history: callbacks invoked since the last start/cancel
  \* -- the data of one renderSingleJob(job) call and its MidiPlayer calls --
  job,             \* const RenderJob &job: bpm, pitchOffset, velocityMultiplier, volumeDb
  settings,        \* RenderSettings settings
  midiFile,        \* the file job.midiFile as MidiFile::readFrom sees it
  midiSeq,         \* MidiMessageSequence midiSeq
  midiDuration,    \* double midiDuration, in milliseconds
  originalMidiDuration,  \* double originalMidiDuration, in milliseconds
  totalSamples,    \* int64 totalSamples
  fullBuffer,      \* AudioBuffer<float> fullBuffer, as runs of equal samples
  rendered,        \* history: fullBuffer as it left the block loop
  startSampleOffset,  \* int64 startSampleOffset
  finalSamples,    \* int64 finalSamples
  outputFile,      \* job.outputFile on disk
  problematicFiles,   \* StringArray problematicFiles
  stage,           \* position of the call inside renderSingleJob
  success,         \* its return value
  plugin,          \* auto plugin: "none" before createPluginInstance and when it
                   \* returned nullptr, else "created"
  released,        \* history: number of plugin->releaseResources() calls
  samplePos,       \* int64 samplePos
  midiEventIndex,  \* int midiEventIndex
  delivered        \* history: the midiBuffer.addEvent calls of the block loop,
                   \* [event, blockStart, blockLen, offset] in call order

histVars  == <<renders, reports, atCancel, calls>>
dataVars  == <<job, settings, midiFile, midiSeq, midiDuration,
               originalMidiDuration, totalSamples, fullBuffer, rendered,
               startSampleOffset, finalSamples, outputFile, problematicFiles,
               stage, success, plugin, released, samplePos, midiEventIndex,
               delivered>>
loopVars  == <<plugin, released, samplePos, midiEventIndex, delivered>>
schedVarsButError ==
  <<rowQueues, totalJobs, completedCount, failedCount, rendering, cancelled,
    timerRunning, callbacks, pool, running, mainPc, jobRow, renders, reports,
    atCancel, calls>>
schedVars == <<rowQueues, totalJobs, completedCount, failedCount, rendering,
               cancelled, lastError, timerRunning, callbacks, pool, running,
               mainPc, jobRow, renders, reports, atCancel, calls>>
vars      == <<schedVars, dataVars>>

\* ---- helpers --------------------------------------------------------------

\* a lambda [this, job, rowIndex] entering renderSingleJob(job) on a pool thread
NewTask(j) == [job |-> j, pc |-> "load", block |-> 0, success |-> FALSE]

\* progress is the ratio <<numerator, denominator>> last passed to onProgress
NoCalls == [onProgress |-> 0, onComplete |-> 0, onError |-> 0, arg |-> NoError,
            progress |-> <<>>]

\* the loop "for (auto *q : rowQueues) if (q->rowIndex == rowIndex)": index or 0
FindQueue(q, r) ==
  IF \E i \in 1..Len(q) : q[i].rowIndex = r
  THEN CHOOSE i \in 1..Len(q) :
         /\ q[i].rowIndex = r
         /\ \A k \in 1..(i - 1) : q[k].rowIndex # r
  ELSE 0

SeqToSet(s) == {s[i] : i \in 1..Len(s)}

QueuedJobs == UNION {SeqToSet(rowQueues[i].jobs) : i \in 1..Len(rowQueues)}

\* positions of the lambda at which the job has not yet been counted
PreCountPcs == {"load", "check", "block", "post", "ret", "count"}

Running(j) == \E t \in running : t.job = j /\ t.pc \in PreCountPcs

\* dequeued from its row queue and not yet reported through onJobCompleted
InFlight(j) == j \in pool \/ Running(j)

\* the renderer as constructed
SchedulerInit ==
  /\ rowQueues = <<>>
  /\ totalJobs = 0
  /\ completedCount = 0
  /\ failedCount = 0
  /\ rendering = FALSE
  /\ cancelled = FALSE
  /\ lastError = NoError
  /\ timerRunning = FALSE
  /\ callbacks = NoCallbacks
  /\ pool = {}
  /\ running = {}
  /\ mainPc = "idle"
  /\ jobRow = <<>>
  /\ renders = [j \in Jobs |-> 0]
  /\ reports = [j \in Jobs |-> 0]
  /\ atCancel = {}
  /\ calls = NoCalls

\* no renderSingleJob call is followed through its data
DataIdle ==
  /\ job = [bpm |-> 120, pitchOffset |-> 0, velocityMultiplier |-> [num |-> 1, den |-> 1],
            volumeDb |-> 0]
  /\ settings = [sampleRate |-> 44100, bitDepth |-> 24, bpm |-> 120,
                 masterGainDb |-> 0, silenceThresholdDb |-> 0 - 50, loop |-> FALSE,
                 seamlessLoop |-> FALSE]
  /\ midiFile = [readable |-> FALSE, timeFormat |-> 0, tempo |-> 120,
                 tracks |-> <<>>]
  /\ midiSeq = <<>>
  /\ midiDuration = 0
  /\ originalMidiDuration = 0
  /\ totalSamples = 0
  /\ fullBuffer = <<>>
  /\ rendered = <<>>
  /\ startSampleOffset = 0
  /\ finalSamples = 0
  /\ outputFile = [exists |-> FALSE, offset |-> 0, data |-> <<>>]
  /\ problematicFiles = <<>>
  /\ stage = "idle"
  /\ success = FALSE
  /\ plugin = "none"
  /\ released = 0
  /\ samplePos = 0
  /\ midiEventIndex = 0
  /\ delivered = <<>>

Init == SchedulerInit /\ DataIdle

\* ---- message thread -------------------------------------------------------

\* row indices are only ever compared for equality, so the callers' rows are
\* taken in order of first use: a new row is the next unused index
RowsInUse == {jobRow[i] : i \in 1..Len(jobRow)}
NextRows  == {r \in Rows : r <= Cardinality(RowsInUse) + 1}

\* addJob(job) with job.rowIndex = r; the job is named by its call number
addJob(r) ==
  /\ mainPc = "idle"
  /\ ~rendering
  /\ LET j  == totalJobs + 1
         qi == FindQueue(rowQueues, r)
     IN rowQueues' =
          IF qi = 0
          THEN Append(rowQueues, [rowIndex |-> r, jobs |-> <<j>>,
                                  isProcessing |-> FALSE])
          ELSE [rowQueues EXCEPT ![qi].jobs = Append(@, j)]
  /\ totalJobs' = totalJobs + 1
  /\ jobRow' = Append(jobRow, r)
  /\ UNCHANGED <<completedCount, failedCount, rendering, cancelled, lastError,
                 timerRunning, callbacks, pool, running, mainPc>>
  /\ UNCHANGED histVars
  /\ UNCHANGED dataVars

\* the owner assigns the public std::function members before it adds jobs
setCallbacks(cfg) ==
  /\ mainPc = "idle"
  /\ totalJobs = 0
  /\ callbacks' = cfg
  /\ callbacks' # callbacks
  /\ UNCHANGED <<rowQueues, totalJobs, completedCount, failedCount, rendering,
                 cancelled, lastError, timerRunning, pool, running, mainPc,
                 jobRow>>
  /\ UNCHANGED histVars
  /\ UNCHANGED dataVars

\* a variant of the section below that takes the newest job of the row
ProcessNextLockedLifo(st, r) ==
  LET qi == FindQueue(st.q, r) IN
  IF qi = 0 THEN st
  ELSE IF st.q[qi].jobs = <<>>
       THEN [st EXCEPT !.q[qi].isProcessing = FALSE]
  ELSE IF st.q[qi].isProcessing THEN st
  ELSE LET n == Len(st.q[qi].jobs) IN
       [q |-> [st.q EXCEPT ![qi].isProcessing = TRUE,
                           ![qi].jobs = SubSeq(@, 1, n - 1)],
        p |-> st.p \cup {st.q[qi].jobs[n]}]

\* the queueLock section of processNextJobForRow(r), on st = [q, p]
\* (row queues, pool): returns the queues and the pool afterwards
ProcessNextLocked(st, r) ==
  LET qi == FindQueue(st.q, r) IN
  IF qi = 0 THEN st
  ELSE IF st.q[qi].jobs = <<>>
       THEN [st EXCEPT !.q[qi].isProcessing = FALSE]
  ELSE IF st.q[qi].isProcessing THEN st
  ELSE [q |-> [st.q EXCEPT ![qi].isProcessing = TRUE, ![qi].jobs = Tail(@)],
        p |-> st.p \cup {Head(st.q[qi].jobs)}]

\* processNextJobForRow(r) as one call: the cancelled test, then the section
processNextJobForRow(st, r, isCancelled) ==
  IF isCancelled THEN st ELSE ProcessNextLocked(st, r)

\* "for (auto *queue : rowQueues) processNextJobForRow(queue->rowIndex)"
RECURSIVE StartAll(_, _, _)
StartAll(st, rowsInOrder, i) ==
  IF i > Len(rowsInOrder) THEN st
  ELSE StartAll(processNextJobForRow(st, rowsInOrder[i], FALSE),
                rowsInOrder, i + 1)

startRendering ==
  /\ mainPc = "idle"
  /\ IF rendering \/ rowQueues = <<>>
     THEN UNCHANGED schedVars
     ELSE LET st == StartAll([q |-> rowQueues, p |-> pool],
                             [i \in 1..Len(rowQueues) |-> rowQueues[i].rowIndex],
                             1)
          IN /\ rendering' = TRUE
             /\ cancelled' = FALSE
             /\ completedCount' = 0
             /\ failedCount' = 0
             /\ rowQueues' = st.q
             /\ pool' = st.p
             /\ timerRunning' = TRUE
             /\ calls' = NoCalls
             /\ atCancel' = {}
             /\ UNCHANGED <<totalJobs, lastError, callbacks, running, mainPc,
                            jobRow, renders, reports>>
  /\ UNCHANGED dataVars

\* a running lambda that will still reach the cancelled test of a block
HasBlockToStart(t) ==
  \/ t.pc \in {"load", "check"}
  \/ t.pc = "block" /\ t.block + 1 < NumBlocks

\* the jobs that are dequeued and have a cancelled test still ahead of them
TestAhead ==
  pool \cup {t.job : t \in {u \in running : HasBlockToStart(u)}}

\* a variant of the step below that leaves the timer running
cancelRenderingFlagsNoStop ==
  /\ mainPc = "idle"
  /\ cancelled' = TRUE
  /\ rendering' = FALSE
  /\ mainPc' = "cancelLock"
  /\ atCancel' = TestAhead
  /\ calls' = NoCalls
  /\ UNCHANGED <<rowQueues, totalJobs, completedCount, failedCount, lastError,
                 timerRunning, callbacks, pool, running, jobRow, renders,
                 reports>>
  /\ UNCHANGED dataVars

\* cancelRendering, up to the acquisition of queueLock
cancelRenderingFlags ==
  /\ mainPc = "idle"
  /\ cancelled' = TRUE
  /\ timerRunning' = FALSE
  /\ rendering' = FALSE
  /\ mainPc' = "cancelLock"
  /\ atCancel' = TestAhead
  /\ calls' = NoCalls
  /\ UNCHANGED <<rowQueues, totalJobs, completedCount, failedCount, lastError,
                 callbacks, pool, running, jobRow, renders, reports>>
  /\ UNCHANGED dataVars

\* cancelRendering, the queueLock section
cancelRenderingClear ==
  /\ mainPc = "cancelLock"
  /\ rowQueues' = [i \in 1..Len(rowQueues) |->
                     [rowQueues[i] EXCEPT !.jobs = <<>>, !.isProcessing = FALSE]]
  /\ mainPc' = "idle"
  /\ UNCHANGED <<totalJobs, completedCount, failedCount, rendering, cancelled,
                 lastError, timerRunning, callbacks, pool, running, jobRow>>
  /\ UNCHANGED histVars
  /\ UNCHANGED dataVars

\* a variant of the function below that counts every finished job
getProgressAllFinished ==
  IF totalJobs = 0 THEN <<1, 1>> ELSE <<completedCount + failedCount, totalJobs>>

\* getProgress: 1.0f when totalJobs is 0, else completedCount / totalJobs,
\* as the ratio <<numerator, denominator>>
getProgress ==
  IF totalJobs = 0 THEN <<1, 1>> ELSE <<completedCount, totalJobs>>

\* timerCallback: onProgress(getProgress()), then the test for the end of the
\* batch and the terminal callback
timerCallback ==
  /\ mainPc = "idle"
  /\ timerRunning
  /\ LET done    == completedCount + failedCount >= totalJobs
         callErr == done /\ failedCount > 0 /\ callbacks.onError
         callOk  == done /\ ~callErr /\ callbacks.onComplete
     IN /\ timerRunning' = ~done
        /\ rendering' = IF done THEN FALSE ELSE rendering
        /\ calls' = [onProgress |-> IF callbacks.onProgress THEN 1
                                    ELSE calls.onProgress,
                     onComplete |-> calls.onComplete + (IF callOk THEN 1 ELSE 0),
                     onError    |-> calls.onError + (IF callErr THEN 1 ELSE 0),
                     arg        |-> IF callErr THEN lastError ELSE calls.arg,
                     progress   |-> IF callbacks.onProgress THEN getProgress
                                    ELSE calls.progress]
  /\ UNCHANGED <<rowQueues, totalJobs, completedCount, failedCount, cancelled,
                 lastError, callbacks, pool, running, mainPc, jobRow, renders,
                 reports, atCancel>>
  /\ UNCHANGED dataVars

\* ---- pool threads ---------------------------------------------------------

Step(t, u) == running' = (running \ {t}) \cup {u}

\* a free pool thread (of n) takes a submitted lambda and enters
\* renderSingleJob(job)
workerPickup(n) ==
  /\ Cardinality(running) < n
  /\ \E j \in pool :
       /\ pool' = pool \ {j}
       /\ running' = running \cup {NewTask(j)}
       /\ renders' = [renders EXCEPT ![j] = @ + 1]
  /\ UNCHANGED <<rowQueues, totalJobs, completedCount, failedCount, rendering,
                 cancelled, lastError, timerRunning, callbacks, mainPc, jobRow,
                 reports, atCancel, calls>>
  /\ UNCHANGED dataVars

\* renderSingleJob: createPluginInstance, then state, playhead, prepare, MIDI
renderLoadPlugin(t) ==
  /\ t.pc = "load"
  /\ \/ /\ lastError' = LoadError
        /\ Step(t, [t EXCEPT !.pc = "ret", !.success = FALSE])
     \/ /\ Step(t, [t EXCEPT !.pc = "check"])
        /\ UNCHANGED lastError
  /\ UNCHANGED <<rowQueues, totalJobs, completedCount, failedCount, rendering,
                 cancelled, timerRunning, callbacks, pool, mainPc, jobRow>>
  /\ UNCHANGED histVars
  /\ UNCHANGED dataVars

\* a variant of the step below that never looks at the cancelled flag
renderLoopCheckNoCancel(t) ==
  /\ t.pc = "check"
  /\ Step(t, [t EXCEPT !.pc = "block"])
  /\ UNCHANGED <<rowQueues, totalJobs, completedCount, failedCount, rendering,
                 cancelled, lastError, timerRunning, callbacks, pool, mainPc,
                 jobRow>>
  /\ UNCHANGED histVars
  /\ UNCHANGED dataVars

\* renderSingleJob: the cancelled test at the top of a block
renderLoopCheck(t) ==
  /\ t.pc = "check"
  /\ Step(t, IF cancelled THEN [t EXCEPT !.pc = "ret", !.success = FALSE,
                                         !.block = 0]
             ELSE [t EXCEPT !.pc = "block"])
  /\ UNCHANGED <<rowQueues, totalJobs, completedCount, failedCount, rendering,
                 cancelled, lastError, timerRunning, callbacks, pool, mainPc,
                 jobRow>>
  /\ UNCHANGED histVars
  /\ UNCHANGED dataVars

\* renderSingleJob: one block through processBlock, samplePos advanced, and
\* the loop test "samplePos < totalSamples"
renderBlock(t) ==
  /\ t.pc = "block"
  /\ Step(t, IF t.block + 1 < NumBlocks
             THEN [t EXCEPT !.pc = "check", !.block = @ + 1]
             ELSE [t EXCEPT !.pc = "post", !.block = 0])
  /\ UNCHANGED <<rowQueues, totalJobs, completedCount, failedCount, rendering,
                 cancelled, lastError, timerRunning, callbacks, pool, mainPc,
                 jobRow>>
  /\ UNCHANGED histVars
  /\ UNCHANGED dataVars

\* renderSingleJob after the loop: gain, trim, write, validate
renderFinish(t) ==
  /\ t.pc = "post"
  /\ \/ \E e \in {StreamError, WriterError} :
          /\ lastError' = e
          /\ Step(t, [t EXCEPT !.pc = "ret", !.success = FALSE])
     \/ /\ Step(t, [t EXCEPT !.pc = "ret", !.success = TRUE])
        /\ UNCHANGED lastError
  /\ UNCHANGED <<rowQueues, totalJobs, completedCount, failedCount, rendering,
                 cancelled, timerRunning, callbacks, pool, mainPc, jobRow>>
  /\ UNCHANGED histVars
  /\ UNCHANGED dataVars

\* the lambda calls onJobCompleted(rowIndex, success, lastError): the parameter
\* "const String &error" is bound to the member lastError, which is not read
\* here
lambdaCallOnJobCompleted(t) ==
  /\ t.pc = "ret"
  /\ Step(t, [t EXCEPT !.pc = "count"])
  /\ UNCHANGED <<rowQueues, totalJobs, completedCount, failedCount, rendering,
                 cancelled, lastError, timerRunning, callbacks, pool, mainPc,
                 jobRow>>
  /\ UNCHANGED histVars
  /\ UNCHANGED dataVars

\* a variant of the step below in which a failed job ends the lambda: the
\* row's flag is not cleared and the row is not advanced
onJobCompletedCountStopOnFail(t) ==
  /\ t.pc = "count"
  /\ IF t.success
     THEN /\ completedCount' = completedCount + 1
          /\ Step(t, [t EXCEPT !.pc = "clear", !.success = FALSE])
          /\ UNCHANGED failedCount
     ELSE /\ failedCount' = failedCount + 1
          /\ running' = running \ {t}
          /\ UNCHANGED completedCount
  /\ reports' = [reports EXCEPT ![t.job] = @ + 1]
  /\ UNCHANGED <<rowQueues, totalJobs, rendering, cancelled, lastError,
                 timerRunning, callbacks, pool, mainPc, jobRow, renders,
                 atCancel, calls>>
  /\ UNCHANGED dataVars

\* a variant of the step below without the "else": a failed job is counted
\* in both counters
onJobCompletedCountNoElse(t) ==
  /\ t.pc = "count"
  /\ completedCount' = completedCount + 1
  /\ failedCount' = failedCount + (IF t.success THEN 0 ELSE 1)
  /\ Step(t, IF t.success THEN [t EXCEPT !.pc = "clear", !.success = FALSE]
             ELSE [t EXCEPT !.pc = "setErr"])
  /\ reports' = [reports EXCEPT ![t.job] = @ + 1]
  /\ UNCHANGED <<rowQueues, totalJobs, rendering, cancelled, lastError,
                 timerRunning, callbacks, pool, mainPc, jobRow, renders,
                 atCancel, calls>>
  /\ UNCHANGED dataVars

\* onJobCompleted: completedCount++ or failedCount++
onJobCompletedCount(t) ==
  /\ t.pc = "count"
  /\ IF t.success
     THEN /\ completedCount' = completedCount + 1
          /\ Step(t, [t EXCEPT !.pc = "clear", !.success = FALSE])
          /\ UNCHANGED failedCount
     ELSE /\ failedCount' = failedCount + 1
          /\ Step(t, [t EXCEPT !.pc = "setErr"])
          /\ UNCHANGED completedCount
  /\ reports' = [reports EXCEPT ![t.job] = @ + 1]
  /\ UNCHANGED <<rowQueues, totalJobs, rendering, cancelled, lastError,
                 timerRunning, callbacks, pool, mainPc, jobRow, renders,
                 atCancel, calls>>
  /\ UNCHANGED dataVars

\* onJobCompleted: "if (!error.isEmpty()) lastError = error", where error is
\* lastError itself: the member is read and, when it holds a message, assigned
\* to itself
onJobCompletedSetError(t) ==
  /\ t.pc = "setErr"
  /\ lastError' = lastError
  /\ Step(t, [t EXCEPT !.pc = "clear"])
  /\ UNCHANGED <<rowQueues, totalJobs, completedCount, failedCount, rendering,
                 cancelled, timerRunning, callbacks, pool, mainPc, jobRow>>
  /\ UNCHANGED histVars
  /\ UNCHANGED dataVars

\* onJobCompleted: the queueLock section clearing the row's isProcessing
onJobCompletedClear(t) ==
  /\ t.pc = "clear"
  /\ LET qi == FindQueue(rowQueues, jobRow[t.job]) IN
     rowQueues' = IF qi = 0 THEN rowQueues
                  ELSE [rowQueues EXCEPT ![qi].isProcessing = FALSE]
  /\ Step(t, [t EXCEPT !.pc = "next"])
  /\ UNCHANGED <<totalJobs, completedCount, failedCount, rendering, cancelled,
                 lastError, timerRunning, callbacks, pool, mainPc, jobRow>>
  /\ UNCHANGED histVars
  /\ UNCHANGED dataVars

\* onJobCompleted's "if (!cancelled.load())" and processNextJobForRow's
\* "if (cancelled.load()) return": two loads of the same flag in a row; the
\* lambda ends when the flag is set
onJobCompletedNext(t) ==
  /\ t.pc = "next"
  /\ IF cancelled
     THEN /\ running' = running \ {t}
          /\ atCancel' = atCancel \ {t.job}
     ELSE /\ Step(t, [t EXCEPT !.pc = "dispatch"])
          /\ UNCHANGED atCancel
  /\ UNCHANGED <<rowQueues, totalJobs, completedCount, failedCount, rendering,
                 cancelled, lastError, timerRunning, callbacks, pool, mainPc,
                 jobRow, renders, reports, calls>>
  /\ UNCHANGED dataVars

\* a variant of the step below in which the lambda ends without advancing
\* the row
workerDispatchNoAdvance(t) ==
  /\ t.pc = "dispatch"
  /\ running' = running \ {t}
  /\ atCancel' = atCancel \ {t.job}
  /\ UNCHANGED <<rowQueues, pool, totalJobs, completedCount, failedCount,
                 rendering, cancelled, lastError, timerRunning, callbacks,
                 mainPc, jobRow, renders, reports, calls>>
  /\ UNCHANGED dataVars

\* processNextJobForRow on the pool thread: the queueLock section; the lambda
\* ends and the thread is free again
workerDispatch(t) ==
  /\ t.pc = "dispatch"
  /\ LET st == ProcessNextLocked([q |-> rowQueues, p |-> pool], jobRow[t.job])
     IN /\ rowQueues' = st.q
        /\ pool' = st.p
  /\ running' = running \ {t}
  /\ atCancel' = atCancel \ {t.job}
  /\ UNCHANGED <<totalJobs, completedCount, failedCount, rendering, cancelled,
                 lastError, timerRunning, callbacks, mainPc, jobRow, renders,
                 reports, calls>>
  /\ UNCHANGED dataVars

workerStep(n) ==
  \/ workerPickup(n)
  \/ \E t \in running : renderLoadPlugin(t)
  \/ \E t \in running : renderLoopCheck(t)
  \/ \E t \in running : renderBlock(t)
  \/ \E t \in running : renderFinish(t)
  \/ \E t \in running : lambdaCallOnJobCompleted(t)
  \/ \E t \in running : onJobCompletedCount(t)
  \/ \E t \in running : onJobCompletedSetError(t)
  \/ \E t \in running : onJobCompletedClear(t)
  \/ \E t \in running : onJobCompletedNext(t)
  \/ \E t \in running : workerDispatch(t)

\* the owner calls addJob for one more job, up to limit jobs
addJobCall(limit) == \E r \in NextRows : totalJobs < limit /\ addJob(r)

setCallbacksCall == \E cfg \in CallbackConfigs : setCallbacks(cfg)

\* any calls of the public interface by an owner that, like MainComponent,
\* has installed its three callbacks when it calls startRendering
Next ==
  \/ addJobCall(MaxJobs)
  \/ setCallbacks(AppCallbacks)
  \/ callbacks = AppCallbacks /\ startRendering
  \/ cancelRenderingFlags
  \/ cancelRenderingClear
  \/ timerCallback
  \/ workerStep(FewWorkers)

Spec == Init /\ [][Next]_vars

\* any calls, with the pool running every lambda to its end, the timer firing
\* while it is started and cancelRendering running to its end
SpecFair ==
  /\ Init /\ [][Next]_vars
  /\ WF_vars(workerStep(FewWorkers))
  /\ WF_vars(timerCallback)
  /\ WF_vars(cancelRenderingClear)

\* ---- one batch: jobs are added, startRendering is called once, no cancel ----

NotStarted ==
  /\ ~rendering
  /\ pool = {} /\ running = {}
  /\ \A j \in Jobs : reports[j] = 0

BatchNext ==
  \/ NotStarted /\ addJobCall(MaxJobs)
  \/ setCallbacksCall
  \/ NotStarted /\ rowQueues # <<>> /\ startRendering
  \/ timerCallback
  \/ workerStep(NumWorkers)

\* the pool runs every submitted lambda to its end and the timer keeps firing
SpecBatch ==
  Init /\ [][BatchNext]_vars /\ WF_vars(workerStep(NumWorkers)) /\ WF_vars(timerCallback)

\* ---- any calls except cancelRendering, any callbacks installed ----------------

NoCancelNext ==
  \/ addJobCall(MaxJobs)
  \/ setCallbacksCall
  \/ startRendering
  \/ timerCallback
  \/ workerStep(NumWorkers)

SpecNoCancel == Init /\ [][NoCancelNext]_vars

\* ---- MidiPlayer ---------------------------------------------------------------

\* A juce::MidiMessage is [status, channel, note, velocity, time]: the kind of
\* its status byte, the channel 1..16, the two data bytes (0..127) and the
\* timestamp (ticks in a MidiFile, milliseconds once loaded).
\* isNoteOn(): a note-on status with a velocity byte above zero
IsNoteOn(m) == m.status = "noteOn" /\ m.velocity > 0

\* isNoteOff(): a note-off status, or a note-on status with velocity byte zero
IsNoteOff(m) == m.status = "noteOff" \/ (m.status = "noteOn" /\ m.velocity = 0)

\* isNoteOnOrOff(): the status byte alone
IsNoteOnOrOff(m) == m.status \in {"noteOn", "noteOff"}

jlimit(lo, hi, x) == IF x < lo THEN lo ELSE IF hi < x THEN hi ELSE x

\* MidiMessageSequence::addEvent: the event goes behind the events that are
\* not later than it
AddEvent(seq, m) ==
  LET k == Cardinality({i \in 1..Len(seq) : seq[i].time <= m.time})
  IN SubSeq(seq, 1, k) \o <<m>> \o SubSeq(seq, k + 1, Len(seq))

\* MidiMessageSequence::addSequence(other, 0.0)
RECURSIVE AddSequence(_, _, _)
AddSequence(seq, other, i) ==
  IF i > Len(other) THEN seq
  ELSE AddSequence(AddEvent(seq, other[i]), other, i + 1)

\* MidiFile::convertTimestampTicksToSeconds for one timestamp, in milliseconds:
\* ticks per quarter note at the file's tempo, or SMPTE frames and ticks per
\* frame when the time format is negative
TicksToMs(file, tick) ==
  IF file.timeFormat > 0
  THEN (tick * 60000) \div (file.timeFormat * file.tempo)
  ELSE (tick * 1000) \div
         ((0 - (file.timeFormat \div 256)) * (file.timeFormat % 256))

RECURSIVE LoadTracks(_, _, _)
LoadTracks(file, result, track) ==
  IF track > Len(file.tracks) THEN result
  ELSE LoadTracks(file,
         AddSequence(result,
                     [i \in 1..Len(file.tracks[track]) |->
                        [file.tracks[track][i] EXCEPT
                           !.time = TicksToMs(file, @)]], 1),
         track + 1)

\* MidiPlayer::loadMidiFile(file, bpm): bpm is not used
loadMidiFile(file) ==
  IF file.readable THEN LoadTracks(file, <<>>, 1) ELSE <<>>

\* MidiMessage::floatValueToMidiByte(jlimit(0, 1, getFloatVelocity() * v)):
\* the byte nearest to velocity * v, within 0..127; up tells which way a
\* product halfway between two bytes is rounded by the float arithmetic
ScaledVelocity(velocity, v, up) ==
  LET twice == jlimit(0, 2 * 127 * v.den, 2 * velocity * v.num)
      low   == twice \div (2 * v.den)
      rest  == twice % (2 * v.den)
  IN IF rest > v.den \/ (rest = v.den /\ up) THEN low + 1 ELSE low

\* MidiPlayer::applyTransformations(seq, pitchOffset, velocityMultiplier);
\* ties[i] is the rounding of a halfway velocity of event i
RECURSIVE applyTransformations(_, _, _, _, _, _)
applyTransformations(seq, pitchOffset, velocityMultiplier, ties, result, i) ==
  IF i > Len(seq) THEN result
  ELSE
    LET m       == seq[i]
        newNote == jlimit(0, 127, m.note + pitchOffset)
        newVel  == ScaledVelocity(m.velocity, velocityMultiplier, ties[i])
        msg     == IF ~IsNoteOnOrOff(m) THEN m
                   ELSE IF IsNoteOn(m)
                   THEN [status |-> "noteOn", channel |-> m.channel,
                         note |-> newNote, velocity |-> newVel,
                         time |-> m.time]
                   ELSE [status |-> "noteOff", channel |-> m.channel,
                         note |-> newNote, velocity |-> 0, time |-> m.time]
    IN applyTransformations(seq, pitchOffset, velocityMultiplier, ties,
                            AddEvent(result, msg), i + 1)

\* MidiPlayer::getSequenceDuration: MidiMessageSequence::getEndTime
getSequenceDuration(seq) == IF seq = <<>> THEN 0 ELSE seq[Len(seq)].time

\* the scan of getMidiFileDuration over the events of one track
RECURSIVE LastNoteOnInTrack(_, _, _)
LastNoteOnInTrack(trackSeq, lastNoteOnTick, i) ==
  IF i > Len(trackSeq) THEN lastNoteOnTick
  ELSE LastNoteOnInTrack(trackSeq,
         IF IsNoteOn(trackSeq[i]) /\ trackSeq[i].time > lastNoteOnTick
         THEN trackSeq[i].time ELSE lastNoteOnTick,
         i + 1)

\* the scan of getMidiFileDuration over the tracks
RECURSIVE LastNoteOnTick(_, _, _)
LastNoteOnTick(file, lastNoteOnTick, track) ==
  IF track > Len(file.tracks) THEN lastNoteOnTick
  ELSE LastNoteOnTick(file,
         LastNoteOnInTrack(file.tracks[track], lastNoteOnTick, 1), track + 1)

\* a variant of the function below that rounds the beat count up to whole
\* bars, so that a note on a bar line belongs to the bar that ends there
getMidiFileDurationCeil(file, bpm) ==
  IF ~file.readable \/ file.timeFormat <= 0 THEN 0
  ELSE
    LET lastNoteOnTick == LastNoteOnTick(file, 0, 1)
        roundedBars    ==
          (lastNoteOnTick + 4 * file.timeFormat - 1) \div (4 * file.timeFormat)
        roundedBeats   == IF roundedBars * 4 < 4 THEN 4 ELSE roundedBars * 4
    IN (roundedBeats * 60000) \div bpm

\* MidiPlayer::getMidiFileDuration(file, bpm), in milliseconds
getMidiFileDuration(file, bpm) ==
  IF ~file.readable \/ file.timeFormat <= 0 THEN 0
  ELSE
    LET lastNoteOnTick == LastNoteOnTick(file, 0, 1)
        barNumber      == lastNoteOnTick \div (file.timeFormat * 4)
        roundedBeats   == IF (barNumber + 1) * 4 < 4 THEN 4
                          ELSE (barNumber + 1) * 4
    IN (roundedBeats * 60000) \div bpm

\* ---- the MidiPlayer calls of renderSingleJob, on any small MIDI file ------------

\* the events MIDI files are made of: loud and soft note-ons, a note-on with
\* velocity zero, a note-off with a release velocity, a controller; on the
\* first beat and, for 96 ticks per quarter note, on the last tick of bar 1,
\* on the bar line of bar 2 and on the last tick of bar 4
FileEvents ==
  { [status |-> k.status, channel |-> k.channel, note |-> k.note,
     velocity |-> k.velocity, time |-> tick] :
      k \in { [status |-> "noteOn", channel |-> 1, note |-> 60, velocity |-> 100],
              [status |-> "noteOn", channel |-> 2, note |-> 64, velocity |-> 1],
              [status |-> "noteOn", channel |-> 1, note |-> 60, velocity |-> 0],
              [status |-> "noteOff", channel |-> 2, note |-> 60, velocity |-> 64],
              [status |-> "controller", channel |-> 1, note |-> 7, velocity |-> 100] },
      tick \in {0, 383, 384, 1535} }

EventSeqs ==
  {e \in UNION {[1..n -> FileEvents] : n \in 0..MaxEvents} :
     \A i \in 1..(Len(e) - 1) : e[i].time <= e[i + 1].time}

OnChannel(e, c) == SelectSeq(e, LAMBDA m : m.channel = c)

\* files with one track per channel: 96 or 480 ticks per quarter note at
\* 120 bpm, SMPTE time (25 frames of 40 ticks), and a file that cannot be read
MidiFiles ==
  { [readable |-> TRUE, timeFormat |-> tf, tempo |-> 120,
     tracks |-> <<OnChannel(e, 1), OnChannel(e, 2)>>] :
      tf \in {96, 480, 0 - 6360}, e \in EventSeqs }
  \cup {[readable |-> FALSE, timeFormat |-> 0, tempo |-> 120, tracks |-> <<>>]}

\* the arguments of the MidiPlayer calls
MidiJobs ==
  { [bpm |-> 120, pitchOffset |-> 0 - 61, volumeDb |-> 0,
     velocityMultiplier |-> [num |-> 1, den |-> 100]],
    [bpm |-> 160, pitchOffset |-> 1, volumeDb |-> 0,
     velocityMultiplier |-> [num |-> 1, den |-> 2]],
    [bpm |-> 120, pitchOffset |-> 68, volumeDb |-> 0,
     velocityMultiplier |-> [num |-> 2, den |-> 1]],
    [bpm |-> 60, pitchOffset |-> 0, volumeDb |-> 0,
     velocityMultiplier |-> [num |-> 1, den |-> 1]] }

MidiInit ==
  /\ SchedulerInit
  /\ job \in MidiJobs
  /\ midiFile \in MidiFiles
  /\ settings = [sampleRate |-> 44100, bitDepth |-> 24, bpm |-> 120,
                 masterGainDb |-> 0, silenceThresholdDb |-> 0 - 50, loop |-> FALSE,
                 seamlessLoop |-> FALSE]
  /\ midiSeq = <<>>
  /\ midiDuration = 0
  /\ originalMidiDuration = 0
  /\ totalSamples = 0
  /\ fullBuffer = <<>>
  /\ rendered = <<>>
  /\ startSampleOffset = 0
  /\ finalSamples = 0
  /\ outputFile = [exists |-> FALSE, offset |-> 0, data |-> <<>>]
  /\ problematicFiles = <<>>
  /\ stage = "loadMidi"
  /\ success = FALSE
  /\ plugin = "created"
  /\ released = 0
  /\ samplePos = 0
  /\ midiEventIndex = 0
  /\ delivered = <<>>

\* a variant of the step below in which a file that cannot be read ends the
\* job with an error
rsjLoadMidiStrict ==
  /\ stage = "loadMidi"
  /\ midiSeq' = loadMidiFile(midiFile)
  /\ IF midiFile.readable
     THEN stage' = "transform" /\ UNCHANGED lastError
     ELSE stage' = "done" /\ lastError' = LoadError
  /\ UNCHANGED <<job, settings, midiFile, midiDuration, originalMidiDuration,
                 totalSamples, fullBuffer, rendered, startSampleOffset,
                 finalSamples, outputFile, problematicFiles, success>>
  /\ UNCHANGED schedVarsButError
  /\ UNCHANGED loopVars

\* renderSingleJob: midiSeq = MidiPlayer::loadMidiFile(job.midiFile, job.bpm)
rsjLoadMidi ==
  /\ stage = "loadMidi"
  /\ midiSeq' = loadMidiFile(midiFile)
  /\ stage' = "transform"
  /\ UNCHANGED <<job, settings, midiFile, midiDuration, originalMidiDuration,
                 totalSamples, fullBuffer, rendered, startSampleOffset,
                 finalSamples, outputFile, problematicFiles, success>>
  /\ UNCHANGED schedVars
  /\ UNCHANGED loopVars

\* renderSingleJob: midiSeq = MidiPlayer::applyTransformations(midiSeq,
\* job.pitchOffset, job.velocityMultiplier)
rsjTransform ==
  /\ stage = "transform"
  /\ \E ties \in [1..Len(midiSeq) -> BOOLEAN] :
       midiSeq' = applyTransformations(midiSeq, job.pitchOffset,
                                       job.velocityMultiplier, ties, <<>>, 1)
  /\ stage' = "durations"
  /\ UNCHANGED <<job, settings, midiFile, midiDuration, originalMidiDuration,
                 totalSamples, fullBuffer, rendered, startSampleOffset,
                 finalSamples, outputFile, problematicFiles, success>>
  /\ UNCHANGED schedVars
  /\ UNCHANGED loopVars

\* renderSingleJob: midiDuration and originalMidiDuration
rsjDurations ==
  /\ stage = "durations"
  /\ midiDuration' = getSequenceDuration(midiSeq)
  /\ originalMidiDuration' = getMidiFileDuration(midiFile, job.bpm)
  /\ stage' = "splice"
  /\ UNCHANGED <<job, settings, midiFile, midiSeq, totalSamples, fullBuffer,
                 rendered, startSampleOffset, finalSamples, outputFile,
                 problematicFiles, success>>
  /\ UNCHANGED schedVars
  /\ UNCHANGED loopVars

MidiNext ==
  \/ rsjLoadMidi
  \/ rsjTransform
  \/ rsjDurations

SpecMidi == MidiInit /\ [][MidiNext]_vars

\* ---- the data of renderSingleJob -------------------------------------------------

\* A sample magnitude or a linear gain is exactly zero or 10^(db / 20):
\* [zero, db].  Products add the db fields; comparisons compare them.
Zero   == [zero |-> TRUE, db |-> 0]
Db(x)  == [zero |-> FALSE, db |-> x]

Mul(a, b) == IF a.zero \/ b.zero THEN Zero ELSE Db(a.db + b.db)

GreaterThan(a, b) == ~a.zero /\ (b.zero \/ a.db > b.db)

\* juce::Decibels::decibelsToGain(dB) with its default minus infinity of -100 dB
decibelsToGain(db) == IF db > 0 - 100 THEN Db(db) ELSE Zero

\* fullBuffer is a sequence of runs [len, level]: len samples of one magnitude
RECURSIVE RunOffset(_, _)
RunOffset(buf, i) == IF i <= 1 THEN 0 ELSE RunOffset(buf, i - 1) + buf[i - 1].len

BufferSize(buf) == RunOffset(buf, Len(buf) + 1)

\* the runs that have a sample in [pos, pos + n)
RunsIn(buf, pos, n) ==
  {i \in 1..Len(buf) :
     /\ buf[i].len > 0
     /\ RunOffset(buf, i) < pos + n
     /\ pos < RunOffset(buf, i) + buf[i].len}

\* AudioBuffer::getMagnitude over all channels: the peak of [pos, pos + n)
getMagnitude(buf, pos, n) ==
  LET levels == {buf[i].level : i \in RunsIn(buf, pos, n)}
  IN IF levels = {} THEN Zero
     ELSE CHOOSE a \in levels : \A b \in levels : ~GreaterThan(b, a)

\* the samples [pos, pos + n) of the buffer, as runs
Slice(buf, pos, n) ==
  LET clip(i) ==
        LET from == IF RunOffset(buf, i) < pos THEN pos ELSE RunOffset(buf, i)
            to   == IF RunOffset(buf, i) + buf[i].len < pos + n
                    THEN RunOffset(buf, i) + buf[i].len ELSE pos + n
        IN [len |-> IF to > from THEN to - from ELSE 0, level |-> buf[i].level]
  IN SelectSeq([i \in 1..Len(buf) |-> clip(i)], LAMBDA r : r.len > 0)

\* static_cast<int64>(seconds * sampleRate), the duration given in milliseconds
ToSamples(ms, sampleRate) == (ms * sampleRate) \div 1000

\* the MIDI files rendered: a note held over the first bar line, a short
\* phrase, a note in bar 4 of a file at 240 bpm, and a file that cannot be read
RenderFiles ==
  LET on(tick)  == [status |-> "noteOn", channel |-> 1, note |-> 60,
                    velocity |-> 100, time |-> tick]
      off(tick) == [status |-> "noteOff", channel |-> 1, note |-> 60,
                    velocity |-> 0, time |-> tick]
  IN { [readable |-> TRUE, timeFormat |-> 96, tempo |-> 120,
        tracks |-> << <<on(0), off(400)>> >>],
       [readable |-> TRUE, timeFormat |-> 96, tempo |-> 120,
        tracks |-> << <<on(0), off(96)>> >>],
       [readable |-> TRUE, timeFormat |-> 96, tempo |-> 240,
        tracks |-> << <<on(1535), off(1536)>> >>],
       [readable |-> FALSE, timeFormat |-> 0, tempo |-> 120, tracks |-> <<>>] }

RenderJobs ==
  { [bpm |-> b, pitchOffset |-> 0, volumeDb |-> vol,
     velocityMultiplier |-> [num |-> 1, den |-> 1]] :
      b \in {60, 120}, vol \in {0 - 100, 0 - 96, 0 - 6} }

RenderSettingsSet ==
  { [sampleRate |-> 44100, bitDepth |-> 24, bpm |-> b, masterGainDb |-> g,
     silenceThresholdDb |-> 0 - 50, loop |-> l, seamlessLoop |-> sl] :
      b \in {120, 160}, g \in {0 - 96, 0 - 95, 0}, l \in BOOLEAN,
      sl \in BOOLEAN }

RenderInit ==
  /\ SchedulerInit
  /\ job \in RenderJobs
  /\ midiFile \in RenderFiles
  /\ settings \in RenderSettingsSet
  /\ midiSeq = <<>>
  /\ midiDuration = 0
  /\ originalMidiDuration = 0
  /\ totalSamples = 0
  /\ fullBuffer = <<>>
  /\ rendered = <<>>
  /\ startSampleOffset = 0
  /\ finalSamples = 0
  /\ outputFile = [exists |-> FALSE, offset |-> 0, data |-> <<>>]
  /\ problematicFiles = <<>>
  /\ stage = "loadMidi"
  /\ success = FALSE
  /\ plugin = "created"
  /\ released = 0
  /\ samplePos = 0
  /\ midiEventIndex = 0
  /\ delivered = <<>>

\* the loop "for (i < numEvents) midiSeq.addEvent(copy of event i, shifted)":
\* event i is read from the sequence as it is at that iteration
RECURSIVE SpliceLoop(_, _, _, _)
SpliceLoop(seq, numEvents, shift, i) ==
  IF i > numEvents THEN seq
  ELSE SpliceLoop(AddEvent(seq, [seq[i] EXCEPT !.time = @ + shift]),
                  numEvents, shift, i + 1)

\* renderSingleJob: the seamless-loop duplication; the sequence is in time
\* order already when sort() is called
rsjSplice ==
  /\ stage = "splice"
  /\ midiSeq' = IF settings.loop /\ settings.seamlessLoop
                THEN SpliceLoop(midiSeq, Len(midiSeq), originalMidiDuration, 1)
                ELSE midiSeq
  /\ stage' = "allocate"
  /\ UNCHANGED <<job, settings, midiFile, midiDuration, originalMidiDuration,
                 totalSamples, fullBuffer, rendered, startSampleOffset,
                 finalSamples, outputFile, problematicFiles, success>>
  /\ UNCHANGED schedVars
  /\ UNCHANGED loopVars

\* renderSingleJob: renderDuration, totalSamples and the cleared fullBuffer
rsjAllocate ==
  /\ stage = "allocate"
  /\ totalSamples' =
       ToSamples(IF settings.loop /\ settings.seamlessLoop
                 THEN originalMidiDuration * 2 + 5000
                 ELSE midiDuration + 10000, settings.sampleRate)
  /\ fullBuffer' = <<[len |-> totalSamples', level |-> Zero]>>
  /\ stage' = "blocks"
  /\ UNCHANGED <<job, settings, midiFile, midiSeq, midiDuration,
                 originalMidiDuration, rendered, startSampleOffset,
                 finalSamples, outputFile, problematicFiles, success>>
  /\ UNCHANGED schedVars
  /\ UNCHANGED loopVars

\* what the plugin may have put into the buffer: nothing, a level below the
\* threshold throughout, or a loud signal that ends after one sample, after
\* 5.3 s, or with the buffer
PluginOutputs(total, sampleRate) ==
  {<<[len |-> total, level |-> Zero]>>,
   <<[len |-> total, level |-> Db(0 - 70)]>>}
  \cup
  { <<[len |-> e, level |-> Db(0 - 6)], [len |-> total - e, level |-> Zero]>> :
      e \in {x \in {1, ToSamples(5300, sampleRate), total} : x <= total} }

\* renderSingleJob: the block loop without cancellation, every block copied
\* into fullBuffer at samplePos; then releaseResources
rsjBlocks ==
  /\ stage = "blocks"
  /\ fullBuffer' \in PluginOutputs(totalSamples, settings.sampleRate)
  /\ rendered' = fullBuffer'
  /\ stage' = "gain"
  /\ UNCHANGED <<job, settings, midiFile, midiSeq, midiDuration,
                 originalMidiDuration, totalSamples, startSampleOffset,
                 finalSamples, outputFile, problematicFiles, success>>
  /\ UNCHANGED schedVars
  /\ released' = released + 1
  /\ samplePos' = totalSamples
  /\ UNCHANGED <<plugin, midiEventIndex, delivered>>

\* a variant of the step below that always scales the buffer
rsjGainScaleOnly ==
  /\ stage = "gain"
  /\ LET combinedGain == Mul(decibelsToGain(job.volumeDb),
                             decibelsToGain(settings.masterGainDb))
     IN fullBuffer' = [i \in 1..Len(fullBuffer) |->
                         [fullBuffer[i] EXCEPT !.level = Mul(@, combinedGain)]]
  /\ stage' = "trim"
  /\ UNCHANGED <<job, settings, midiFile, midiSeq, midiDuration,
                 originalMidiDuration, totalSamples, rendered,
                 startSampleOffset, finalSamples, outputFile,
                 problematicFiles, success>>
  /\ UNCHANGED schedVars
  /\ UNCHANGED loopVars

\* renderSingleJob: row gain x master gain applied, or the buffer cleared
rsjGain ==
  /\ stage = "gain"
  /\ LET rowGainLinear    == IF job.volumeDb > 0 - 96
                             THEN decibelsToGain(job.volumeDb) ELSE Zero
         masterGainLinear == IF settings.masterGainDb > 0 - 96
                             THEN decibelsToGain(settings.masterGainDb)
                             ELSE Zero
         combinedGain     == Mul(rowGainLinear, masterGainLinear)
     IN fullBuffer' =
          IF GreaterThan(combinedGain, Zero)
          THEN [i \in 1..Len(fullBuffer) |->
                  [fullBuffer[i] EXCEPT !.level = Mul(@, combinedGain)]]
          ELSE <<[len |-> totalSamples, level |-> Zero]>>
  /\ stage' = "trim"
  /\ UNCHANGED <<job, settings, midiFile, midiSeq, midiDuration,
                 originalMidiDuration, totalSamples, rendered,
                 startSampleOffset, finalSamples, outputFile,
                 problematicFiles, success>>
  /\ UNCHANGED schedVars
  /\ UNCHANGED loopVars

\* the backward scan "for (pos = totalSamples - blockSize; pos >= 0; pos -=
\* blockSize)": the value of silenceStartSample after it.  The k-th iteration
\* checks the window at pos = totalSamples - k * blockSize, where samplesToCheck
\* = jmin(blockSize, totalSamples - pos) is blockSize; the loop breaks at the
\* first k whose peak exceeds the threshold, and leaves the initial value
\* totalSamples when there is none.
ScanBackwards(buf, total, thresholdLinear) ==
  LET Loud == {k \in 1..(total \div BlockSize) :
                 GreaterThan(getMagnitude(buf, total - k * BlockSize, BlockSize),
                             thresholdLinear)}
  IN IF Loud = {} THEN total
     ELSE LET k == CHOOSE x \in Loud : \A y \in Loud : x <= y
          IN (total - k * BlockSize) + BlockSize

\* "Snap to next bar": finalSamples for a silence start, with barDuration =
\* 60 / bpm * 4 seconds and std::ceil of silenceStartTime / barDuration
SnapToBar(silenceStartSample, bpm, sampleRate) ==
  LET nextBar == (silenceStartSample * bpm + 240 * sampleRate - 1)
                   \div (240 * sampleRate)
      bars    == IF nextBar < 1 THEN 1 ELSE nextBar
  IN (bars * 240 * sampleRate) \div bpm

\* a variant of the step below that cuts at the silence start, not at a bar
rsjTrimNoSnap ==
  /\ stage = "trim"
  /\ LET loopSamples == ToSamples(originalMidiDuration, settings.sampleRate)
         wanted ==
           IF settings.loop THEN loopSamples
           ELSE ScanBackwards(fullBuffer, totalSamples,
                              decibelsToGain(settings.silenceThresholdDb))
     IN /\ finalSamples' = IF wanted < totalSamples THEN wanted
                           ELSE totalSamples
        /\ startSampleOffset' =
             IF settings.loop /\ settings.seamlessLoop THEN loopSamples ELSE 0
  /\ stage' = "write"
  /\ UNCHANGED <<job, settings, midiFile, midiSeq, midiDuration,
                 originalMidiDuration, totalSamples, fullBuffer, rendered,
                 outputFile, problematicFiles, success>>
  /\ UNCHANGED schedVars
  /\ UNCHANGED loopVars

\* renderSingleJob: finalSamples and startSampleOffset
rsjTrim ==
  /\ stage = "trim"
  /\ LET loopSamples == ToSamples(originalMidiDuration, settings.sampleRate)
         wanted ==
           IF settings.loop THEN loopSamples
           ELSE SnapToBar(ScanBackwards(fullBuffer, totalSamples,
                            decibelsToGain(settings.silenceThresholdDb)),
                          settings.bpm, settings.sampleRate)
     IN /\ finalSamples' = IF wanted < totalSamples THEN wanted
                           ELSE totalSamples
        /\ startSampleOffset' =
             IF settings.loop /\ settings.seamlessLoop THEN loopSamples ELSE 0
  /\ stage' = "write"
  /\ UNCHANGED <<job, settings, midiFile, midiSeq, midiDuration,
                 originalMidiDuration, totalSamples, fullBuffer, rendered,
                 outputFile, problematicFiles, success>>
  /\ UNCHANGED schedVars
  /\ UNCHANGED loopVars

\* renderSingleJob: the old file deleted, the stream and the writer created,
\* the range written
rsjWrite ==
  /\ stage = "write"
  /\ \/ /\ lastError' = StreamError
        /\ outputFile' = [exists |-> FALSE, offset |-> 0, data |-> <<>>]
        /\ stage' = "done"
     \/ /\ lastError' = WriterError
        /\ outputFile' = [exists |-> TRUE, offset |-> 0, data |-> <<>>]
        /\ stage' = "done"
     \/ /\ UNCHANGED lastError
        /\ outputFile' = [exists |-> TRUE, offset |-> startSampleOffset,
                          data |-> Slice(fullBuffer, startSampleOffset,
                                         finalSamples)]
        /\ stage' = "validate"
  /\ UNCHANGED <<job, settings, midiFile, midiSeq, midiDuration,
                 originalMidiDuration, totalSamples, fullBuffer, rendered,
                 startSampleOffset, finalSamples, problematicFiles, success>>
  /\ UNCHANGED schedVarsButError
  /\ UNCHANGED loopVars

\* File::getSize of the written WAV file: a 44-byte header and the frames of
\* two channels
FileSize(f) == 44 + BufferSize(f.data) * 2 * (settings.bitDepth \div 8)

\* the peak of the first second read back from the file
PeakLevel(f) ==
  getMagnitude(f.data, 0, IF BufferSize(f.data) < CheckSamples
                          THEN BufferSize(f.data) ELSE CheckSamples)

\* the entry validation adds for the file as found on disk, or none
Problem(f) ==
  IF ~f.exists THEN <<"FILE NOT CREATED">>
  ELSE IF FileSize(f) < MinFileBytes THEN <<"EMPTY/CORRUPT">>
  ELSE IF ~GreaterThan(PeakLevel(f), Db(0 - 60)) /\ PeakLevel(f) # Db(0 - 60)
       THEN <<"SILENT">>
  ELSE <<>>

\* a variant of the step below in which a problem makes the job fail
rsjValidateStrict ==
  /\ stage = "validate"
  /\ \E present \in BOOLEAN :
       /\ outputFile' = [outputFile EXCEPT !.exists = present]
       /\ problematicFiles' = problematicFiles \o Problem(outputFile')
       /\ success' = (Problem(outputFile') = <<>>)
  /\ stage' = "done"
  /\ UNCHANGED <<job, settings, midiFile, midiSeq, midiDuration,
                 originalMidiDuration, totalSamples, fullBuffer, rendered,
                 startSampleOffset, finalSamples>>
  /\ UNCHANGED schedVars
  /\ UNCHANGED loopVars

\* renderSingleJob: validation of the output file, which may have been removed
\* since it was written, and "return true"
rsjValidate ==
  /\ stage = "validate"
  /\ \E present \in BOOLEAN :
       /\ outputFile' = [outputFile EXCEPT !.exists = present]
       /\ problematicFiles' = problematicFiles \o Problem(outputFile')
  /\ success' = TRUE
  /\ stage' = "done"
  /\ UNCHANGED <<job, settings, midiFile, midiSeq, midiDuration,
                 originalMidiDuration, totalSamples, fullBuffer, rendered,
                 startSampleOffset, finalSamples>>
  /\ UNCHANGED schedVars
  /\ UNCHANGED loopVars

RenderNext ==
  \/ rsjLoadMidi
  \/ rsjTransform
  \/ rsjDurations
  \/ rsjSplice
  \/ rsjAllocate
  \/ rsjBlocks
  \/ rsjGain
  \/ rsjTrim
  \/ rsjWrite
  \/ rsjValidate

SpecRender == RenderInit /\ [][RenderNext]_vars

\* ---- renderSingleJob block by block, with its early exits ---------------------

\* the MIDI files followed through the block loop: a note held over the first
\* bar line, two events within one block, and a file that cannot be read
BlockFiles ==
  LET on(tick)  == [status |-> "noteOn", channel |-> 1, note |-> 60,
                    velocity |-> 100, time |-> tick]
      off(tick) == [status |-> "noteOff", channel |-> 1, note |-> 60,
                    velocity |-> 0, time |-> tick]
  IN { [readable |-> TRUE, timeFormat |-> 96, tempo |-> 120,
        tracks |-> << <<on(0), off(400)>> >>],
       [readable |-> TRUE, timeFormat |-> 96, tempo |-> 120,
        tracks |-> << <<on(0), off(1)>> >>],
       [readable |-> FALSE, timeFormat |-> 0, tempo |-> 120, tracks |-> <<>>] }

\* the file at job.outputFile left by an earlier render
OldFile == [exists |-> TRUE, offset |-> 0, data |-> <<[len |-> 1, level |-> Db(0)]>>]

BlocksInit ==
  /\ SchedulerInit
  /\ job = [bpm |-> 120, pitchOffset |-> 0, volumeDb |-> 0 - 6,
            velocityMultiplier |-> [num |-> 1, den |-> 1]]
  /\ midiFile \in BlockFiles
  /\ \E sl \in BOOLEAN :
       settings = [sampleRate |-> 44100, bitDepth |-> 24, bpm |-> 120,
                   masterGainDb |-> 0, silenceThresholdDb |-> 0 - 50,
                   loop |-> sl, seamlessLoop |-> sl]
  /\ midiSeq = <<>>
  /\ midiDuration = 0
  /\ originalMidiDuration = 0
  /\ totalSamples = 0
  /\ fullBuffer = <<>>
  /\ rendered = <<>>
  /\ startSampleOffset = 0
  /\ finalSamples = 0
  /\ outputFile \in {[exists |-> FALSE, offset |-> 0, data |-> <<>>], OldFile}
  /\ problematicFiles = <<>>
  /\ stage = "loadPlugin"
  /\ success = FALSE
  /\ plugin = "none"
  /\ released = 0
  /\ samplePos = 0
  /\ midiEventIndex = 0
  /\ delivered = <<>>

\* renderSingleJob: createPluginInstance, setStateInformation, setPlayHead and
\* prepareToPlay; an exception thrown by the plugin is caught at the end
rsjLoadPlugin ==
  /\ stage = "loadPlugin"
  /\ \/ /\ plugin' = "none"
        /\ lastError' = LoadError
        /\ stage' = "done"
     \/ /\ plugin' = "created"
        /\ lastError' = ExceptionError
        /\ stage' = "done"
     \/ /\ plugin' = "created"
        /\ UNCHANGED lastError
        /\ stage' = "loadMidi"
  /\ UNCHANGED <<job, settings, midiFile, midiSeq, midiDuration,
                 originalMidiDuration, totalSamples, fullBuffer, rendered,
                 startSampleOffset, finalSamples, outputFile, problematicFiles,
                 success, released, samplePos, midiEventIndex, delivered>>
  /\ UNCHANGED schedVarsButError

\* a variant of the step below that removes the output file when it gives up
rsjLoopTestCleanUp ==
  /\ stage = "blocks"
  /\ IF samplePos < totalSamples
     THEN IF cancelled
          THEN /\ released' = released + 1
               /\ stage' = "done"
               /\ outputFile' = [exists |-> FALSE, offset |-> 0, data |-> <<>>]
               /\ UNCHANGED <<fullBuffer, rendered>>
          ELSE /\ stage' = "process"
               /\ UNCHANGED <<released, fullBuffer, rendered, outputFile>>
     ELSE /\ released' = released + 1
          /\ fullBuffer' \in PluginOutputs(totalSamples, settings.sampleRate)
          /\ rendered' = fullBuffer'
          /\ stage' = "gain"
          /\ UNCHANGED outputFile
  /\ UNCHANGED <<job, settings, midiFile, midiSeq, midiDuration,
                 originalMidiDuration, totalSamples, startSampleOffset,
                 finalSamples, problematicFiles, success, plugin,
                 samplePos, midiEventIndex, delivered>>
  /\ UNCHANGED schedVars

\* renderSingleJob: "while (samplePos < totalSamples)" and the cancelled test
\* at the top of the block; releaseResources on both ways out of the loop
rsjLoopTest ==
  /\ stage = "blocks"
  /\ IF samplePos < totalSamples
     THEN IF cancelled
          THEN /\ released' = released + 1
               /\ stage' = "done"
               /\ UNCHANGED <<fullBuffer, rendered>>
          ELSE /\ stage' = "process"
               /\ UNCHANGED <<released, fullBuffer, rendered>>
     ELSE /\ released' = released + 1
          /\ fullBuffer' \in PluginOutputs(totalSamples, settings.sampleRate)
          /\ rendered' = fullBuffer'
          /\ stage' = "gain"
  /\ UNCHANGED <<job, settings, midiFile, midiSeq, midiDuration,
                 originalMidiDuration, totalSamples, startSampleOffset,
                 finalSamples, outputFile, problematicFiles, success, plugin,
                 samplePos, midiEventIndex, delivered>>
  /\ UNCHANGED schedVars

\* a variant of the loop below that looks at each event in one block only
RECURSIVE CollectEventsNoBreak(_, _, _, _, _, _)
CollectEventsNoBreak(seq, index, blockStart, len, sampleRate, added) ==
  IF index >= Len(seq) THEN [index |-> index, added |-> added]
  ELSE LET eventTime == seq[index + 1].time
       IN IF eventTime * sampleRate < blockStart * 1000
          THEN CollectEventsNoBreak(seq, index + 1, blockStart, len, sampleRate, added)
          ELSE IF eventTime * sampleRate < (blockStart + len) * 1000
          THEN LET sampleOffset ==
                     jlimit(0, len - 1,
                            (eventTime * sampleRate - blockStart * 1000) \div 1000)
               IN CollectEventsNoBreak(seq, index + 1, blockStart, len, sampleRate,
                    Append(added, [event |-> index + 1, time |-> eventTime,
                                   blockStart |-> blockStart, blockLen |-> len,
                                   offset |-> sampleOffset]))
          ELSE CollectEventsNoBreak(seq, index + 1, blockStart, len, sampleRate, added)

\* the loop "while (midiEventIndex < midiSeq.getNumEvents())" of one block:
\* the index afterwards and the midiBuffer.addEvent calls made.  Times are in
\* milliseconds, so eventTime < blockStartTime is eventTime * sampleRate <
\* samplePos * 1000.
RECURSIVE CollectEvents(_, _, _, _, _, _)
CollectEvents(seq, index, blockStart, len, sampleRate, added) ==
  IF index >= Len(seq) THEN [index |-> index, added |-> added]
  ELSE LET eventTime == seq[index + 1].time
       IN IF eventTime * sampleRate < blockStart * 1000
          THEN CollectEvents(seq, index + 1, blockStart, len, sampleRate, added)
          ELSE IF eventTime * sampleRate < (blockStart + len) * 1000
          THEN LET sampleOffset ==
                     jlimit(0, len - 1,
                            (eventTime * sampleRate - blockStart * 1000) \div 1000)
               IN CollectEvents(seq, index + 1, blockStart, len, sampleRate,
                    Append(added, [event |-> index + 1, time |-> eventTime,
                                   blockStart |-> blockStart, blockLen |-> len,
                                   offset |-> sampleOffset]))
          ELSE [index |-> index, added |-> added]

\* renderSingleJob: one block: samplesToProcess, the events of the block,
\* processBlock, the copy into fullBuffer and samplePos advanced; an exception
\* thrown by processBlock is caught at the end
rsjProcessBlock ==
  /\ stage = "process"
  /\ LET samplesToProcess == IF BlockSize < totalSamples - samplePos
                             THEN BlockSize ELSE totalSamples - samplePos
         collected == CollectEvents(midiSeq, midiEventIndex, samplePos,
                                    samplesToProcess, settings.sampleRate, <<>>)
     IN /\ midiEventIndex' = collected.index
        /\ delivered' = delivered \o collected.added
        /\ \/ /\ samplePos' = samplePos + samplesToProcess
              /\ stage' = "blocks"
              /\ UNCHANGED lastError
           \/ /\ lastError' = ExceptionError
              /\ stage' = "done"
              /\ UNCHANGED samplePos
  /\ UNCHANGED <<job, settings, midiFile, midiSeq, midiDuration,
                 originalMidiDuration, totalSamples, fullBuffer, rendered,
                 startSampleOffset, finalSamples, outputFile, problematicFiles,
                 success, plugin, released>>
  /\ UNCHANGED schedVarsButError

BlocksNext ==
  \/ rsjLoadPlugin
  \/ rsjLoadMidi
  \/ rsjTransform
  \/ rsjDurations
  \/ rsjSplice
  \/ rsjAllocate
  \/ rsjLoopTest
  \/ rsjProcessBlock
  \/ rsjGain
  \/ rsjTrim
  \/ rsjWrite
  \/ rsjValidate
  \/ cancelRenderingFlags
  \/ cancelRenderingClear

SpecBlocks == BlocksInit /\ [][BlocksNext]_vars

\* ---- properties ---------------------------------------------------------------

AddedJobs == 1..totalJobs

InFlightOfRow(r) == {j \in AddedJobs : jobRow[j] = r /\ InFlight(j)}

EarlierOfRow(j) == {i \in 1..(j - 1) : jobRow[i] = jobRow[j]}

AllReportedOnce == \A j \in AddedJobs : renders[j] = 1 /\ reports[j] = 1

\* C1: at most one job of any row is in flight (dequeued from its row queue
\* and not yet reported through onJobCompleted), in every reachable state
C1_OneInFlightPerRow ==
  \A r \in Rows : Cardinality(InFlightOfRow(r)) <= 1

\* C2: without cancellation, a job is handed to the pool only after every
\* job added earlier to the same row has been handed to the pool and has been
\* reported through onJobCompleted: per row the jobs start in addJob order,
\* one after the other
C2_RowFifo ==
  [][\A j \in AddedJobs :
       (j \in pool' /\ j \notin pool) =>
         \A i \in EarlierOfRow(j) : renders[i] = 1 /\ reports[i] = 1]_vars

\* the second job of a row is in the pool, its first job having been reported
C2_Witness ==
  \E j \in AddedJobs : \E i \in EarlierOfRow(j) :
    j \in pool /\ renders[i] = 1 /\ reports[i] = 1

\* C3: in one batch (jobs added, startRendering called once, no cancel) no
\* job is passed to renderSingleJob or reported twice, and once rendering
\* has started every job is eventually rendered once and reported once, with
\* completed + failed = total
C3_EveryJobOnce ==
  /\ [](\A j \in Jobs : renders[j] <= 1 /\ reports[j] <= 1)
  /\ (rendering ~> (AllReportedOnce /\ completedCount + failedCount = totalJobs))

\* a finished batch of MaxJobs jobs over two rows
C3_Witness ==
  /\ totalJobs = MaxJobs /\ Cardinality(RowsInUse) = 2
  /\ AllReportedOnce /\ completedCount + failedCount = totalJobs
  /\ pool = {} /\ running = {}

\* C4: completed + failed <= total in every reachable state
C4_CountersBounded == completedCount + failedCount <= totalJobs

\* after a restart the counters have been reset: both jobs have been
\* reported, one of them before the reset and one after
C4_Witness ==
  /\ rendering /\ totalJobs = 2
  /\ \A j \in AddedJobs : reports[j] = 1
  /\ completedCount + failedCount = 1

\* the poll tick that observes completed + failed >= total
TickDone == timerCallback /\ completedCount + failedCount >= totalJobs

\* C5: the tick that observes completed + failed >= total stops the poll,
\* clears rendering and invokes one terminal callback (when it is set): onError
\* with lastError if a job failed, otherwise onComplete; onComplete is never
\* invoked for a batch in which a job failed, and no second terminal callback
\* follows
C5_OneTerminalCallback ==
  /\ [](calls.onComplete + calls.onError <= 1)
  /\ [][TickDone =>
         /\ ~timerRunning' /\ ~rendering'
         /\ IF failedCount > 0
            THEN /\ calls'.onComplete = calls.onComplete
                 /\ callbacks.onError =>
                      /\ calls'.onError = calls.onError + 1
                      /\ calls'.arg = lastError
            ELSE /\ calls'.onError = calls.onError
                 /\ callbacks.onComplete =>
                      calls'.onComplete = calls.onComplete + 1]_vars

\* C6: from the call of cancelRendering until the next startRendering no
\* callback (onProgress, onComplete, onError) is invoked
C6_NoCallbackAfterCancel == cancelled => calls = NoCalls

\* a job that was in flight when cancelRendering was called has been counted
\* since, so that completed + failed has reached total, with callbacks set
C6_Witness ==
  /\ cancelled /\ mainPc = "idle" /\ callbacks = AppCallbacks
  /\ totalJobs > 0 /\ completedCount + failedCount = totalJobs
  /\ \E t \in running : t.job \in atCancel /\ t.pc = "clear"

\* C7: a job that has not entered renderSingleJob when cancelRendering is
\* called is dropped: after the call (here: until the next startRendering)
\* it is neither passed to renderSingleJob nor counted
C7_UnstartedJobsDropped ==
  [][cancelled =>
       \A j \in AddedJobs :
         renders[j] = 0 => renders'[j] = 0 /\ reports'[j] = 0]_vars

\* C8: with the cancelled flag set and no startRendering since, no job is
\* counted as completed: every job that was in flight resolves as failed
C8_InFlightFails ==
  [][cancelled /\ cancelled' => completedCount' = completedCount]_vars

\* C8 as amended: with the cancelled flag set and no startRendering since, no
\* block is started, and every job that at the call of cancelRendering was in
\* the pool or running with a cancelled test still ahead is counted as failed
C8_AbortAtNextTest ==
  /\ [][cancelled =>
         \A t \in running :
           t.pc = "check" => [t EXCEPT !.pc = "block"] \notin running']_vars
  /\ [][cancelled /\ cancelled' =>
         \A j \in atCancel :
           reports'[j] # reports[j] =>
             /\ completedCount' = completedCount
             /\ failedCount' = failedCount + 1]_vars

\* a job that was in flight at the call has returned false without an error
\* message and has been counted as failed
C8_Witness ==
  /\ cancelled /\ lastError = NoError /\ failedCount = 1
  /\ \E t \in running : t.job \in atCancel /\ t.pc = "clear"

\* C9: in one batch, once a job has failed every job of the batch is still
\* rendered and reported: the failure stops neither its row nor the others
C9_FailureDoesNotStop == (failedCount > 0) ~> AllReportedOnce

\* both jobs of one row have failed, the second after the first
C9_Witness ==
  /\ totalJobs = 2 /\ jobRow[1] = jobRow[2]
  /\ failedCount = 2 /\ AllReportedOnce

\* C10: startRendering changes nothing when rendering is in progress or when
\* no row queue holds a job
C10_StartIsNoOp ==
  [][(startRendering /\ (rendering \/ QueuedJobs = {})) =>
       UNCHANGED <<rendering, cancelled, completedCount, failedCount,
                   rowQueues, timerRunning, pool>>]_vars

\* C11: whenever renderSingleJob has returned false, lastError holds a
\* non-empty message
C11_FailureHasMessage ==
  \A t \in running : (t.pc = "ret" /\ ~t.success) => lastError # NoError

\* the ticks of the note-ons of the file, over all its tracks
NoteOnTicks ==
  UNION { {midiFile.tracks[t][i].time :
             i \in {k \in 1..Len(midiFile.tracks[t]) :
                      IsNoteOn(midiFile.tracks[t][k])}} :
          t \in 1..Len(midiFile.tracks) }

LastNoteOn ==
  IF NoteOnTicks = {} THEN 0
  ELSE CHOOSE x \in NoteOnTicks : \A y \in NoteOnTicks : y <= x

\* the first second of the written file has no sample of 0.001 (-60 dB) or more
FirstSecondBelow(f) ==
  \A i \in 1..Len(f.data) :
    (f.data[i].len > 0 /\ RunOffset(f.data, i) < CheckSamples) =>
      (f.data[i].level.zero \/ f.data[i].level.db < 0 - 60)

C13_LoopLengthExact ==
  (stage = "validate" /\ settings.loop) =>
    BufferSize(outputFile.data) =
      ToSamples(getMidiFileDuration(midiFile, job.bpm), settings.sampleRate)

\* the number of times event e occurs in a sequence
CountIn(seq, e) == Cardinality({i \in 1..Len(seq) : seq[i] = e})

\* seq holds exactly the events of orig and, when shift is given, a copy of
\* each of them moved by shift
PlayedOnceOrTwice(seq, orig, twice, shift) ==
  LET copies == [i \in 1..Len(orig) |-> [orig[i] EXCEPT !.time = @ + shift]]
      wanted == IF twice THEN orig \o copies ELSE orig
  IN /\ Len(seq) = Len(wanted)
     /\ \A i \in 1..Len(wanted) : CountIn(seq, wanted[i]) = CountIn(wanted, wanted[i])

\* the transformed events of the job, before any duplication
TransformedEvents ==
  LET seq == loadMidiFile(midiFile)
  IN applyTransformations(seq, job.pitchOffset, job.velocityMultiplier,
                          [i \in 1..Len(seq) |-> FALSE], <<>>, 1)

\* the sizes of the seamless render: a buffer of 2L + 5 s, of which the range
\* [L * sampleRate, 2L * sampleRate) is written; without loop, no offset
C14_RangeWritten ==
  (stage = "validate" /\ settings.seamlessLoop) =>
    LET loopSamples == ToSamples(getMidiFileDuration(midiFile, job.bpm),
                                 settings.sampleRate)
    IN IF settings.loop
       THEN /\ totalSamples =
                 ToSamples(2 * getMidiFileDuration(midiFile, job.bpm) + 5000,
                           settings.sampleRate)
            /\ outputFile.offset = loopSamples
            /\ BufferSize(outputFile.data) = loopSamples
            /\ outputFile.offset + BufferSize(outputFile.data) <= totalSamples
       ELSE outputFile.offset = 0

\* C14: in seamless-loop mode (loop and seamlessLoop both set) with loop duration
\* L, the transformed events are rendered twice back to back, the copy shifted
\* by L, into a buffer of 2L + 5 s, and the written output is exactly the sample
\* range [L * sampleRate, 2L * sampleRate) of that buffer; offset + length never
\* exceeds the buffer size.  With seamlessLoop set but loop unset, no
\* duplication and no offset are applied.
C14_SeamlessRenderedTwice ==
  /\ C14_RangeWritten
  /\ (stage = "validate" /\ settings.seamlessLoop) =>
       PlayedOnceOrTwice(midiSeq, TransformedEvents, settings.loop,
                         getMidiFileDuration(midiFile, job.bpm))

\* the offset just past the last sample of buf above the threshold, 0 if none
LoudEnd(buf, thresholdDb) ==
  LET ends == {RunOffset(buf, i) + buf[i].len : i \in
                 {j \in 1..Len(buf) : /\ buf[j].len > 0
                                      /\ ~buf[j].level.zero
                                      /\ buf[j].level.db > thresholdDb}}
  IN IF ends = {} THEN 0 ELSE CHOOSE x \in ends : \A y \in ends : y <= x

\* the end of the window of the backward scan that holds the last sample above
\* the threshold; windows are blockSize long and aligned to the buffer end
ContentEnd ==
  totalSamples
    - BlockSize * ((totalSamples - LoudEnd(fullBuffer, settings.silenceThresholdDb))
                     \div BlockSize)

\* some window that the scan visits has a peak above the threshold
ContentFound ==
  /\ LoudEnd(fullBuffer, settings.silenceThresholdDb) > 0
  /\ ContentEnd - BlockSize >= 0

\* the least number of bars of 4 * 60 / bpm seconds that cover n samples
BarsCovering(n, bpm, sampleRate) ==
  CHOOSE b \in 0..64 : /\ b * 240 * sampleRate >= n * bpm
                       /\ (b - 1) * 240 * sampleRate < n * bpm

\* C15: in non-loop mode, with contentEnd the end of the last block-sized window
\* (scanning backward from the buffer end) whose peak exceeds the silence
\* threshold and barDuration = 4 * 60 / bpm, the written length is
\* ceil(contentEnd / barDuration) * barDuration worth of samples, clamped to the
\* rendered buffer size.
C15_TrimToNextBar ==
  (stage = "validate" /\ ~settings.loop /\ ContentFound) =>
    LET snapped == (BarsCovering(ContentEnd, settings.bpm, settings.sampleRate)
                      * 240 * settings.sampleRate) \div settings.bpm
    IN /\ outputFile.offset = 0
       /\ BufferSize(outputFile.data) =
            IF snapped < totalSamples THEN snapped ELSE totalSamples

\* content ending at 5.3 s at 120 bpm gives 6.0 s
C15_Witness ==
  /\ stage = "validate"
  /\ ~settings.loop
  /\ settings.bpm = 120
  /\ LoudEnd(fullBuffer, settings.silenceThresholdDb) = 233730
  /\ ContentFound
  /\ BufferSize(outputFile.data) = 264600

\* C16: in non-loop mode a silent or near-silent render, in which no scanned
\* window has a peak above the silence threshold (content lying only in the
\* leading partial window that the scan never visits included), is trimmed to
\* one full bar: the written length is barDuration * sampleRate samples, not the
\* whole rendered buffer.
C16_SilentRenderOneBar ==
  (stage = "validate" /\ ~settings.loop /\ ~ContentFound) =>
    BufferSize(outputFile.data) = (240 * settings.sampleRate) \div settings.bpm

\* C17: for a readable file with PPQ > 0 and last note-on tick T (0 if none),
\* getMidiFileDuration is (floor((T / PPQ) / 4) + 1) x 4 x 60 / bpm seconds,
\* which is at least one bar
C17_BarRoundedDuration ==
  (stage = "splice" /\ midiFile.readable /\ midiFile.timeFormat > 0) =>
    /\ originalMidiDuration * job.bpm =
         (((LastNoteOn \div midiFile.timeFormat) \div 4) + 1) * 4 * 60000
    /\ originalMidiDuration * job.bpm >= 4 * 60000

\* the last note-on lies in bar 4 of a file at 120 bpm: 8.0 s
C17_Witness ==
  /\ stage = "splice" /\ midiFile.readable /\ midiFile.timeFormat = 96
  /\ job.bpm = 120 /\ LastNoteOn = 1535
  /\ originalMidiDuration = 8000

\* C19: applyTransformations keeps the number of events; a note-on or
\* note-off comes out as an event of the same kind and channel, with note
\* number clamp(n + p, 0, 127) and the same timestamp; any other event comes
\* out unmodified
C19_PitchClampedKindKept ==
  stage = "durations" =>
    LET seq == loadMidiFile(midiFile) IN
    /\ Len(midiSeq) = Len(seq)
    /\ \A i \in 1..Len(seq) :
         IF IsNoteOnOrOff(seq[i])
         THEN /\ IsNoteOn(midiSeq[i]) = IsNoteOn(seq[i])
              /\ IsNoteOff(midiSeq[i]) = IsNoteOff(seq[i])
              /\ midiSeq[i].channel = seq[i].channel
              /\ midiSeq[i].note = jlimit(0, 127, seq[i].note + job.pitchOffset)
              /\ midiSeq[i].time = seq[i].time
         ELSE midiSeq[i] = seq[i]

\* C20: a note-on with velocity byte b (v_in = b / 127) comes out as a
\* note-on whose velocity byte is within half a step of
\* 127 x clamp(v_in x v, 0, 1); a note-off comes out with no velocity
C20_VelocityScaled ==
  stage = "durations" =>
    LET seq == loadMidiFile(midiFile)
        v   == job.velocityMultiplier
    IN \A i \in 1..Len(seq) :
         /\ IsNoteOn(seq[i]) =>
              /\ IsNoteOn(midiSeq[i])
              /\ LET want == jlimit(0, 127 * v.den, seq[i].velocity * v.num)
                     got  == midiSeq[i].velocity * v.den
                 IN 2 * (got - want) <= v.den /\ 2 * (want - got) <= v.den
         /\ IsNoteOff(seq[i]) => midiSeq[i].velocity = 0

\* C18: if the job's volumeDb <= -96 or the settings' masterGainDb <= -96, every
\* sample of the buffer is exactly zero before trimming and writing; otherwise
\* every sample is the rendered sample multiplied by dBToLinear(volumeDb) *
\* dBToLinear(masterGainDb), which keeps a zero sample zero and adds volumeDb +
\* masterGainDb decibels to any other.
C18_MuteOrScale ==
  stage \in {"trim", "write"} =>
    IF job.volumeDb <= 0 - 96 \/ settings.masterGainDb <= 0 - 96
    THEN /\ BufferSize(fullBuffer) = totalSamples
         /\ \A i \in 1..Len(fullBuffer) : fullBuffer[i].level.zero
    ELSE /\ Len(fullBuffer) = Len(rendered)
         /\ \A i \in 1..Len(rendered) :
              /\ fullBuffer[i].len = rendered[i].len
              /\ fullBuffer[i].level.zero = rendered[i].level.zero
              /\ ~rendered[i].level.zero =>
                   fullBuffer[i].level.db =
                     rendered[i].level.db + job.volumeDb + settings.masterGainDb

\* a rendered buffer with sound in it is cleared because the master gain is at
\* -96 dB, although the job's volume is above it
C18_Witness ==
  /\ stage = "trim"
  /\ job.volumeDb = 0 - 6
  /\ settings.masterGainDb = 0 - 96
  /\ \E i \in 1..Len(rendered) : rendered[i].len > 0 /\ ~rendered[i].level.zero
  /\ \A i \in 1..Len(fullBuffer) : fullBuffer[i].level.zero

\* C21: every poll tick reports progress equal to completed / total, or 1.0
\* when total is 0, and the reported value lies in [0, 1], for any sequence of
\* addJob, startRendering, completions and cancel / restart.
C21_ProgressRatio ==
  [][(calls'.progress # calls.progress /\ calls'.progress # <<>>) =>
       /\ calls'.progress = IF totalJobs = 0 THEN <<1, 1>>
                            ELSE <<completedCount, totalJobs>>
       /\ 0 <= calls'.progress[1]
       /\ calls'.progress[1] <= calls'.progress[2]
       /\ calls'.progress[2] > 0]_vars

\* a tick between two completions reports one half
C21_Witness == calls.progress = <<1, 2>> /\ timerRunning

\* C22: a job whose MIDI file cannot be opened or parsed is rendered as an empty
\* sequence and is not a failed job: no load error is raised, the sequence and
\* both durations are empty, the render goes through every stage, and the call
\* returns success unless the output stream or the writer cannot be created.
C22_UnreadableMidiRendersEmpty ==
  ~midiFile.readable =>
    /\ midiSeq = <<>>
    /\ midiDuration = 0 /\ originalMidiDuration = 0
    /\ lastError \in {NoError, StreamError, WriterError}
    /\ stage = "done" => /\ released = 1
                         /\ totalSamples > 0
                         /\ success = (lastError = NoError)

\* the render of an unreadable file has returned success
C22_Witness ==
  /\ ~midiFile.readable
  /\ stage = "done"
  /\ success
  /\ outputFile.exists

\* C23: for every job whose plugin instance was created, releaseResources is
\* called exactly once before renderSingleJob returns, on every exit path:
\* success, cancellation in the block loop, output stream or writer creation
\* failure, and an exception thrown while preparing or processing.
C23_ReleasedOnce ==
  /\ released <= 1
  /\ (stage = "done" /\ plugin = "created") => released = 1

\* at the top of a block no pending event is earlier than the block's start:
\* the branch "if (eventTime < blockStartTime)" of the event loop is not taken
NoCatchUpEvent ==
  stage \in {"blocks", "process"} =>
    \/ midiEventIndex = Len(midiSeq)
    \/ midiSeq[midiEventIndex + 1].time * settings.sampleRate >= samplePos * 1000

\* the block that starts at sample start
BlockLenAt(start) ==
  IF BlockSize < totalSamples - start THEN BlockSize ELSE totalSamples - start

\* C24: the block loop processes blocks [pos, pos + len) with len = min(2048,
\* totalSamples - pos) starting at pos = 0, so the processed blocks partition
\* [0, totalSamples) without overlap or gap, and every event of the sorted
\* sequence with a timestamp in [0, totalSamples / sampleRate) is delivered to
\* the plugin exactly once, in the block whose time range [blockStart,
\* blockEnd) contains it, at an offset within 0..len-1, in non-decreasing time
\* order.
C24_BlocksPartitionAndDeliver ==
  /\ samplePos \in 0..totalSamples
  /\ samplePos % BlockSize = 0 \/ samplePos = totalSamples
  /\ stage \in {"gain", "trim", "write", "validate"} => samplePos = totalSamples
  /\ \A k \in 1..Len(delivered) :
       LET d == delivered[k]
       IN /\ d.blockStart % BlockSize = 0
          /\ d.blockStart < totalSamples
          /\ d.blockLen = BlockLenAt(d.blockStart)
          /\ d.time = midiSeq[d.event].time
          /\ d.time * settings.sampleRate >= d.blockStart * 1000
          /\ d.time * settings.sampleRate < (d.blockStart + d.blockLen) * 1000
          /\ d.offset \in 0..(d.blockLen - 1)
          /\ k > 1 => /\ delivered[k - 1].event < d.event
                      /\ delivered[k - 1].time <= d.time
                      /\ delivered[k - 1].blockStart <= d.blockStart
  /\ stage \in {"blocks", "process", "gain", "trim", "write", "validate"} =>
       \A e \in 1..Len(midiSeq) :
         midiSeq[e].time * settings.sampleRate < samplePos * 1000 =>
           Cardinality({k \in 1..Len(delivered) : delivered[k].event = e}) = 1

\* the loop has run to its end and has delivered events in two different
\* blocks, one of them inside its block
C24_Witness ==
  /\ stage = "gain"
  /\ samplePos = totalSamples
  /\ totalSamples % BlockSize # 0
  /\ Len(delivered) = Len(midiSeq)
  /\ \E k \in 1..Len(delivered) :
       delivered[k].blockStart > 0 /\ delivered[k].offset > 0
  /\ \E k \in 1..Len(delivered) : delivered[k].blockStart = 0

\* the pool threads whose next step reads and assigns the plain member
\* lastError, outside any lock
ErrorWriters == {t \in running : t.pc = "setErr"}

\* the next tick of the poll reads lastError for onError
PollReadsError ==
  /\ timerRunning
  /\ mainPc = "idle"
  /\ completedCount + failedCount >= totalJobs
  /\ failedCount > 0
  /\ callbacks.onError

\* C26: every access to batch state shared between the workers and the
\* submitting thread is made under a lock or is atomic; in particular the
\* last-error message is never written by two workers at the same time, nor
\* read by the poll while a worker writes it.
C26_ErrorAccessExclusive ==
  /\ Cardinality(ErrorWriters) <= 1
  /\ ~(ErrorWriters # {} /\ PollReadsError)

\* C27: whenever the poll invokes onComplete or onError for a batch, no job of
\* the batch is in flight and no worker is still executing onJobCompleted or
\* processNextJobForRow on the renderer, and every row's processing flag is
\* clear, so that the owner may destroy the renderer in response.
C27_CallbackAfterWorkersLeft ==
  [][(calls'.onComplete + calls'.onError > calls.onComplete + calls.onError) =>
       /\ pool = {}
       /\ running = {}
       /\ \A i \in 1..Len(rowQueues) : ~rowQueues[i].isProcessing]_vars

\* C28: whenever startRendering has set the rendering flag, then, unless
\* cancelRendering clears it, the poll eventually finds the batch finished,
\* fires the terminal callback and stops with rendering cleared; also for a
\* startRendering issued after a previous batch finished or was cancelled.
C28_BatchTerminates == rendering ~> ~rendering

\* C29: once cancelRendering has set the cancelled flag, and until a
\* startRendering clears it, no worker pops a job from a row queue or submits
\* one to the worker pool, under every interleaving of cancelRendering with a
\* worker running onJobCompleted followed by processNextJobForRow.
C29_NoSubmitAfterCancel ==
  [][(cancelled /\ cancelled') => pool' \subseteq pool]_vars

\* C30: a job that ends in failure because the plugin could not be instantiated
\* or because cancellation was observed in the block loop has not created,
\* deleted or modified the file at its output path: the file only changes once
\* the job has run the whole block loop to the end and released the plugin.
C30_FileUntouchedBeforeLoopEnd ==
  [][outputFile' # outputFile =>
       /\ stage \in {"write", "validate"}
       /\ samplePos = totalSamples
       /\ released = 1]_vars

\* a job cancelled in the middle of the block loop has returned failure and the
\* file of an earlier render is still in place
C30_Witness ==
  /\ stage = "done"
  /\ ~success
  /\ cancelled
  /\ samplePos > 0 /\ samplePos < totalSamples
  /\ released = 1
  /\ outputFile = OldFile

TypeOK ==
  /\ totalJobs \in 0..Cardinality(Jobs)
  /\ completedCount \in 0..Cardinality(Jobs)
  /\ failedCount \in 0..Cardinality(Jobs)
  /\ pool \subseteq Jobs
  /\ Cardinality(running) <= NumWorkers
====
